---- MODULE Spec2Model ----
(***************************************************************************)
(* LastNWindowCollectorOp (caffe2/operators/last_n_window_collector.cc).   *)
(*                                                                         *)
(* The operator keeps its state in three in-place blobs owned by the       *)
(* caller's workspace: LAST_N (the window tensor), NEXT (the cursor, a     *)
(* rank-0 int32 tensor) and NUM_VISITED (an optional one-element int64     *)
(* tensor).  RunOnDevice() runs collect(), under a std::lock_guard when a  *)
(* MUTEX input is given.                                                   *)
(*                                                                         *)
(* A tensor is [dims, data]: dims is its shape, data its rows (records).   *)
(* A record is an opaque value of RecVals; records are at least one        *)
(* pointer word wide and have no zero-sized dimension, and the value 0     *)
(* stands for a record whose leading pointer word is all zero bytes (for   *)
(* instance an int64 or double 0, or a row starting with it).  A row that   *)
(* ExtendTo has exposed and nothing has written yet holds Uninit: its      *)
(* bytes are whatever the storage held, so that a test of them may go      *)
(* either way and it equals no record.                                     *)
(***************************************************************************)
EXTENDS Integers, Sequences, FiniteSets, TLC

\* ---- bounds of the model ------------------------------------------------
MaxCap == 2          \* num_to_collect ranges over 1..MaxCap
MaxVal == 1          \* record values are 0..MaxVal
Over == 1            \* a batch has at most num_to_collect + Over records
MaxOffered == 4      \* total number of records offered in a sequential run
MaxCalls == 3        \* number of calls in a sequential run
NumThreads == 2      \* concurrent callers
MaxConcBatch == 1    \* records per batch of a concurrent caller

\* ---- the example of the operator's documentation (lines 145-156) ------------
ExampleCap == 6      \* "the number of items is set to 6"
ExampleLast == 11    \* the rows offered are 1, 2, ..., 11
ExampleCalls == 3    \* in at most three calls

RecVals == 0..MaxVal
\* the content of a row of uninitialized storage
Uninit == -1
Threads == 1..NumThreads
\* per-record shapes of the batches offered: scalar records and rows of 2
RecShapes == {<< >>, <<2>>}

VARIABLES
  numToCollect,   \* numToCollect_ (constructor argument num_to_collect)
  hasVisited,     \* OutputSize() > NUM_VISITED
  useMutex,       \* InputSize() > MUTEX
  LAST_N,         \* Output(LAST_N): the window tensor
  NEXT,           \* Output(NEXT): [ndim, val], the cursor
  NUM_VISITED,    \* Output(NUM_VISITED): [size, val]
  mutex,          \* 0 when free, else the thread that holds it
  pc,             \* position of each concurrent caller in RunOnDevice
  DATA,           \* Input(DATA) of each concurrent caller
  loc,            \* collect()'s locals of each concurrent caller
  lastDims,       \* Input(DATA).sizes() of the latest sequential call
  result,         \* outcome of the latest sequential call
  recent,         \* history: the last num_to_collect records passed to
                  \* successful calls, oldest first
  total,          \* history: number of records passed to successful calls
  sinceRestart,   \* history: records stored since the window last started
                  \* afresh (see RunOnDevice)
  firstShape,     \* history: [known, rs], the per-record shape rs of the first
                  \* batch a call collected (known once there is one)
  calls           \* history: number of sequential calls made

vars == <<numToCollect, hasVisited, useMutex, LAST_N, NEXT, NUM_VISITED,
          mutex, pc, DATA, loc, lastDims, result, recent, total, sinceRestart,
          firstShape, calls>>

\* ---- tensors --------------------------------------------------------------
Min(a, b) == IF a < b THEN a ELSE b

RECURSIVE Prod(_)
Prod(s) == IF s = << >> THEN 1 ELSE Head(s) * Prod(Tail(s))

ndim(t) == Len(t.dims)
size(t) == Prod(t.dims)
dim0(t) == t.dims[1]

\* a batch of the records recs with per-record shape rs
Batch(rs, recs) == [dims |-> <<Len(recs)>> \o rs, data |-> recs]
\* a rank-0 tensor offered as DATA
Rank0 == [dims |-> << >>, data |-> << >>]
\* the empty tensor LAST_N "should be initialized to"
EmptyTensor == [dims |-> <<0>>, data |-> << >>]

SeqsOf(S, n) == [1..n -> S]
SeqsUpTo(S, n) == UNION {SeqsOf(S, k) : k \in 0..n}

\* output->Resize(dims) with dims[0] = 0, raw_mutable_data, ReserveSpace
ResizeTo0(in) == [dims |-> <<0>> \o Tail(in.dims), data |-> << >>]

\* output->ExtendTo(num, ...): the first dimension grows to num, the rows
\* already present are kept, the new rows hold whatever the storage held
ExtendTo(t, num) ==
  [dims |-> [t.dims EXCEPT ![1] = num],
   data |-> [i \in 1..num |-> IF i <= Len(t.data) THEN t.data[i] ELSE Uninit]]

\* context_.CopyItemsSameDevice of the records recs to rows off, off+1, ...
\* (0-based); a row beyond the tensor's current first dimension lies in
\* reserved storage that no row of the tensor shows
CopyItems(t, off, recs) ==
  [t EXCEPT !.data = [i \in 1..Len(t.data) |->
      IF i > off /\ i <= off + Len(recs) THEN recs[i - off] ELSE t.data[i]]]

SubRecs(recs, from, cnt) == [i \in 1..cnt |-> recs[from + i]]
LastRecs(seq, n) == SubRecs(seq, Len(seq) - Min(n, Len(seq)), Min(n, Len(seq)))

\* ---- collect() --------------------------------------------------------------
Blobs == [last_n |-> LAST_N, next |-> NEXT, num_visited |-> NUM_VISITED]

\* output->size() > 0 && static_cast<shared_ptr<...>*>(raw data)[0] != nullptr
\* : the window has elements and the pointer word at its start is not zero.
\* The set of the values the expression can take: both when the word read
\* is uninitialized storage
output_initialized(t) ==
  IF ~(size(t) > 0) THEN {FALSE}
  ELSE IF t.data[1] = Uninit THEN BOOLEAN
  ELSE {t.data[1] # 0}

\* CAFFE_ENFORCE_EQ(output->ndim(), input.ndim()) and, for i >= 1,
\* CAFFE_ENFORCE_EQ(output->dim(i), input.dim(i))
SameRecordShape(out, in) ==
  /\ ndim(out) = ndim(in)
  /\ \A i \in 2..ndim(in) : out.dims[i] = in.dims[i]

NoLocals == [oi |-> FALSE, v |-> 0, start |-> 0]

\* variant of enter: *num_visited is not reset for an uninitialized window
enter_keeps_visited(b, in, oi) ==
  LET lc == [NoLocals EXCEPT !.oi = oi] IN
  IF ~(ndim(in) >= 1) THEN [b |-> b, lc |-> lc, err |-> "input_rank"]
  ELSE IF oi /\ ~SameRecordShape(b.last_n, in)
    THEN [b |-> b, lc |-> lc, err |-> "shape"]
  ELSE IF ~hasVisited THEN [b |-> b, lc |-> lc, err |-> "none"]
  ELSE IF 1 # b.num_visited.size
    THEN [b |-> b, lc |-> lc, err |-> "visited_slot"]
  ELSE IF ~(b.num_visited.val >= 0)
    THEN [b |-> b, lc |-> lc, err |-> "visited_negative"]
  ELSE [b |-> b, lc |-> [lc EXCEPT !.v = b.num_visited.val], err |-> "none"]

\* lines 35-58: the entry checks and the load (and reset) of *num_visited,
\* with oi the value output_initialized took
enter(b, in, oi) ==
  LET lc == [NoLocals EXCEPT !.oi = oi] IN
  IF ~(ndim(in) >= 1) THEN [b |-> b, lc |-> lc, err |-> "input_rank"]
  ELSE IF oi /\ ~SameRecordShape(b.last_n, in)
    THEN [b |-> b, lc |-> lc, err |-> "shape"]
  ELSE IF ~hasVisited THEN [b |-> b, lc |-> lc, err |-> "none"]
  ELSE IF 1 # b.num_visited.size
    THEN [b |-> b, lc |-> lc, err |-> "visited_slot"]
  ELSE
    LET b1 == IF ~oi THEN [b EXCEPT !.num_visited.val = 0] ELSE b IN
    IF ~(b1.num_visited.val >= 0)
      THEN [b |-> b1, lc |-> lc, err |-> "visited_negative"]
      ELSE [b |-> b1, lc |-> [lc EXCEPT !.v = b1.num_visited.val],
            err |-> "none"]

\* variant of num_visited_add: the sum is computed and never stored
num_visited_add_dropped(b, v, num_entries) == b

\* line 59: the store of *num_visited += num_entries
num_visited_add(b, v, num_entries) ==
  [b EXCEPT !.num_visited.val = v + num_entries]

\* line 59 to line 98 and the load of *next_data at line 114
grow(b, in, lc) ==
  LET num_entries == dim0(in)
      b1 == IF hasVisited THEN num_visited_add(b, lc.v, num_entries) ELSE b
      b2 == IF ~lc.oi THEN [b1 EXCEPT !.last_n = ResizeTo0(in)] ELSE b1
      num_to_copy == Min(num_entries, numToCollect)
      output_batch_size == IF lc.oi THEN dim0(b2.last_n) ELSE 0
      output_num == Min(numToCollect, output_batch_size + num_to_copy)
      b3 == IF output_num > output_batch_size
              THEN [b2 EXCEPT !.last_n = ExtendTo(b2.last_n, output_num)]
              ELSE b2
      b4 == IF ~lc.oi THEN [b3 EXCEPT !.next.val = 0] ELSE b3
  IN
  IF num_entries = 0 THEN [b |-> b2, lc |-> lc, err |-> "none", done |-> TRUE]
  ELSE IF 0 # b3.next.ndim
    THEN [b |-> b3, lc |-> lc, err |-> "next_slot", done |-> TRUE]
  ELSE IF ~(b4.next.val < dim0(b4.last_n))
    THEN [b |-> b4, lc |-> lc, err |-> "next_range", done |-> TRUE]
  ELSE [b |-> b4, lc |-> [lc EXCEPT !.start = b4.next.val],
        err |-> "none", done |-> FALSE]

\* variant of next_after: the cursor is set to 0, as after an oversized batch
next_after_zero(start, num_to_copy) == 0

\* variant of next_after: the cursor advances without wrapping around
next_after_nowrap(start, num_to_copy) == start + num_to_copy

\* line 129: the cursor after a batch of at most num_to_collect records
next_after(start, num_to_copy) == (start + num_to_copy) % numToCollect

\* variant of copy: of an oversized batch the first num_to_collect rows are
\* copied (input_data without its offset)
copy_first_rows(b, in, lc) ==
  LET num_entries == dim0(in)
      num_to_copy == Min(num_entries, numToCollect)
      start == lc.start
      first_chunk_size == Min(num_to_copy + start, numToCollect) - start
  IN
  IF num_entries > numToCollect
  THEN [b EXCEPT
          !.last_n = CopyItems(@, 0, SubRecs(in.data, 0, num_to_copy)),
          !.next.val = 0]
  ELSE [b EXCEPT
          !.last_n = CopyItems(
              CopyItems(@, start, SubRecs(in.data, 0, first_chunk_size)),
              0, SubRecs(in.data, first_chunk_size,
                         num_to_copy - first_chunk_size)),
          !.next.val = next_after(start, num_to_copy)]

\* lines 100-131: the copies and the store of *next_data
copy(b, in, lc) ==
  LET num_entries == dim0(in)
      num_to_copy == Min(num_entries, numToCollect)
      start == lc.start
      first_chunk_size == Min(num_to_copy + start, numToCollect) - start
  IN
  IF num_entries > numToCollect
  THEN [b EXCEPT
          !.last_n = CopyItems(@, 0,
              SubRecs(in.data, num_entries - numToCollect, num_to_copy)),
          !.next.val = 0]
  ELSE [b EXCEPT
          !.last_n = CopyItems(
              CopyItems(@, start, SubRecs(in.data, 0, first_chunk_size)),
              0, SubRecs(in.data, first_chunk_size,
                         num_to_copy - first_chunk_size)),
          !.next.val = next_after(start, num_to_copy)]

\* lines 34-132: the whole of collect(); err = "none" when it returns true,
\* otherwise the CAFFE_ENFORCE that threw, with b the blobs at that point
collect(b, in, oi) ==
  LET e == enter(b, in, oi) IN
  IF e.err # "none" THEN [b |-> e.b, err |-> e.err]
  ELSE LET g == grow(e.b, in, e.lc) IN
    IF g.done THEN [b |-> g.b, err |-> g.err]
    ELSE [b |-> copy(g.b, in, g.lc), err |-> "none"]

\* ---- the inputs offered ---------------------------------------------------
SeqInputs ==
  {Rank0} \cup
  {Batch(rs, recs) : rs \in RecShapes,
                     recs \in SeqsUpTo(RecVals, numToCollect + Over)}

ConcInputs ==
  {Rank0} \cup {Batch(<< >>, recs) : recs \in SeqsUpTo(RecVals, MaxConcBatch)}

\* ---- initial states -------------------------------------------------------
InitCommon ==
  /\ numToCollect \in 1..MaxCap
  /\ hasVisited \in BOOLEAN
  /\ mutex = 0
  /\ loc = [t \in Threads |-> NoLocals]
  /\ lastDims = <<0>>
  /\ result = "no_call"
  /\ recent = << >>
  /\ total = 0
  /\ sinceRestart = 0
  /\ firstShape = [known |-> FALSE, rs |-> << >>]
  /\ calls = 0

Fresh ==
  /\ LAST_N = EmptyTensor
  /\ NEXT = [ndim |-> 0, val |-> 0]
  /\ NUM_VISITED = [size |-> 1, val |-> 0]

\* a fresh collector, called by one caller at a time
Init ==
  /\ InitCommon
  /\ Fresh
  /\ useMutex = FALSE
  /\ pc = [t \in Threads |-> "done"]
  /\ DATA = [t \in Threads |-> EmptyTensor]

\* ---- sequential calls -----------------------------------------------------
SetBlobs(b) ==
  /\ LAST_N' = b.last_n
  /\ NEXT' = b.next
  /\ NUM_VISITED' = b.num_visited

\* lines 21-29: one whole RunOnDevice() call with input in
RunOnDevice(in, oi) ==
  /\ mutex = 0
  /\ LET r == collect(Blobs, in, oi) IN
       /\ SetBlobs(r.b)
       /\ result' = r.err
       /\ recent' = IF r.err = "none"
                      THEN LastRecs(recent \o in.data, numToCollect) ELSE recent
       /\ total' = IF r.err = "none" THEN total + dim0(in) ELSE total
       /\ sinceRestart' =
            IF r.err # "none" \/ dim0(in) = 0 THEN sinceRestart
            ELSE IF dim0(in) > numToCollect THEN 0
            ELSE IF ~oi THEN dim0(in)
            ELSE sinceRestart + dim0(in)
       /\ firstShape' =
            IF r.err = "none" /\ ~firstShape.known
              THEN [known |-> TRUE, rs |-> Tail(in.dims)]
              ELSE firstShape
  /\ lastDims' = in.dims
  /\ calls' = calls + 1
  /\ UNCHANGED <<numToCollect, hasVisited, useMutex, mutex, pc, DATA, loc>>

\* the calls of a bounded run: at most MaxCalls calls, MaxOffered records
Call ==
  /\ calls < MaxCalls
  /\ \E in \in SeqInputs : \E oi \in output_initialized(LAST_N) :
       /\ ndim(in) >= 1 => total + dim0(in) <= MaxOffered
       /\ RunOnDevice(in, oi)

Next == Call

Spec == Init /\ [][Next]_vars

\* ---- a collector whose blobs the caller supplies ----------------------------
\* LAST_N, NEXT and NUM_VISITED are inputs of the operator (lines 179-193):
\* the caller may hand in any window of at most num_to_collect rows, any
\* cursor and any visited count, well formed or not; one call is made on them
InitExt ==
  /\ numToCollect \in 1..MaxCap
  /\ hasVisited \in BOOLEAN
  /\ useMutex = FALSE
  /\ mutex = 0
  /\ pc = [t \in Threads |-> "done"]
  /\ DATA = [t \in Threads |-> EmptyTensor]
  /\ loc = [t \in Threads |-> NoLocals]
  /\ LAST_N \in {Batch(<< >>, recs) : recs \in SeqsUpTo(RecVals, numToCollect)}
  /\ NEXT \in [ndim : {0, 1}, val : 0..MaxCap]
  /\ NUM_VISITED \in [size : {1, 2}, val : -1..1]
  /\ hasVisited \/ NUM_VISITED = [size |-> 1, val |-> 0]
  /\ lastDims = <<0>>
  /\ result = "no_call"
  /\ recent = LAST_N.data
  /\ total = Len(LAST_N.data)
  /\ sinceRestart = Len(LAST_N.data)
  /\ firstShape = [known |-> Len(LAST_N.data) > 0, rs |-> << >>]
  /\ calls = MaxCalls - 1

\* the one call made on them, with any input
CallExt ==
  /\ calls < MaxCalls
  /\ \E in \in SeqInputs : \E oi \in output_initialized(LAST_N) :
       RunOnDevice(in, oi)

SpecExt == InitExt /\ [][CallExt]_vars

\* ---- the documentation's example ---------------------------------------------
\* a fresh collector of num_to_collect = 6
InitExample ==
  /\ numToCollect = ExampleCap
  /\ hasVisited \in BOOLEAN
  /\ useMutex = FALSE
  /\ mutex = 0
  /\ pc = [t \in Threads |-> "done"]
  /\ DATA = [t \in Threads |-> EmptyTensor]
  /\ loc = [t \in Threads |-> NoLocals]
  /\ Fresh
  /\ lastDims = <<0>>
  /\ result = "no_call"
  /\ recent = << >>
  /\ total = 0
  /\ sinceRestart = 0
  /\ firstShape = [known |-> FALSE, rs |-> << >>]
  /\ calls = 0

\* the batch of the k scalar rows a, a + 1, ...
ExampleBatch(a, k) == Batch(<< >>, [i \in 1..k |-> a + i - 1])

\* the rows 1, 2, ... are offered in order, cut into batches in every way
ExampleCall ==
  /\ calls < ExampleCalls
  /\ \E k \in 0..(ExampleLast - total) :
       \E oi \in output_initialized(LAST_N) :
         RunOnDevice(ExampleBatch(total + 1, k), oi)

SpecExample == InitExample /\ [][ExampleCall]_vars

\* ---- concurrent callers ---------------------------------------------------
\* Each caller runs RunOnDevice() once on the fresh collector.  collect() is
\* taken in three steps, cut at the load and the store of *num_visited += and
\* at the load of *next_data: without a mutex the callers' steps interleave
\* (a data race).  Loads and stores within a step are not interleaved
\* further, so every run of the model is a run the code has.
\* the callers are interchangeable: their inputs are taken in one order only
RECURSIVE RecsKey(_)
RecsKey(recs) ==
  IF recs = << >> THEN 0
  ELSE (Head(recs) + 1) + (MaxVal + 2) * RecsKey(Tail(recs))
InputKey(in) == IF ndim(in) = 0 THEN 0 ELSE 1 + RecsKey(in.data)

InitConc ==
  /\ InitCommon
  /\ Fresh
  /\ useMutex \in BOOLEAN
  /\ pc = [t \in Threads |-> "start"]
  /\ DATA \in {d \in [Threads -> ConcInputs] :
        \A t \in Threads \ {NumThreads} : InputKey(d[t]) <= InputKey(d[t + 1])}

SeqUnchanged == UNCHANGED <<numToCollect, hasVisited, useMutex, DATA,
                            lastDims, result, recent, total, sinceRestart,
                            firstShape, calls>>

\* variant of Acquire: the caller enters without waiting for the mutex
AcquireNoWait(t) ==
  /\ pc[t] = "start"
  /\ useMutex
  /\ mutex' = t
  /\ pc' = [pc EXCEPT ![t] = "enter"]
  /\ UNCHANGED <<LAST_N, NEXT, NUM_VISITED, loc>>
  /\ SeqUnchanged

\* variant of Acquire: the guard is an unnamed temporary, destroyed (and the
\* mutex released) before collect() is called
AcquireTemporary(t) ==
  /\ pc[t] = "start"
  /\ useMutex
  /\ mutex = 0
  /\ pc' = [pc EXCEPT ![t] = "enter"]
  /\ UNCHANGED <<LAST_N, NEXT, NUM_VISITED, loc, mutex>>
  /\ SeqUnchanged

\* lines 22-24: std::lock_guard<std::mutex> guard(*mutex)
Acquire(t) ==
  /\ pc[t] = "start"
  /\ useMutex
  /\ mutex = 0
  /\ mutex' = t
  /\ pc' = [pc EXCEPT ![t] = "enter"]
  /\ UNCHANGED <<LAST_N, NEXT, NUM_VISITED, loc>>
  /\ SeqUnchanged

\* where collect() leaves the caller: under the guard it still has to
\* release the mutex (Return), without one RunOnDevice is over
Leave(p) ==
  IF useMutex THEN p ELSE IF p = "exit" THEN "done" ELSE "failed"

\* collect()'s locals lc of a caller that moves to p: they end with the call
Locals(p, lc) == IF p \in {"done", "failed"} THEN NoLocals ELSE lc

\* collect() lines 35-58, called under the guard (line 25) or, when no MUTEX
\* input is given, directly (lines 26-28)
Enter(t) ==
  /\ pc[t] = "enter" \/ (pc[t] = "start" /\ ~useMutex)
  /\ \E oi \in output_initialized(LAST_N) :
       LET e == enter(Blobs, DATA[t], oi)
           p == IF e.err = "none" THEN "grow" ELSE Leave("unwind")
       IN
       /\ SetBlobs(e.b)
       /\ loc' = [loc EXCEPT ![t] = Locals(p, e.lc)]
       /\ pc' = [pc EXCEPT ![t] = p]
  /\ UNCHANGED mutex
  /\ SeqUnchanged

\* collect() lines 59-98 and the load of *next_data
Grow(t) ==
  /\ pc[t] = "grow"
  /\ LET g == grow(Blobs, DATA[t], loc[t])
         p == IF g.err # "none" THEN Leave("unwind")
              ELSE IF g.done THEN Leave("exit")
              ELSE "copy"
     IN
       /\ SetBlobs(g.b)
       /\ loc' = [loc EXCEPT ![t] = Locals(p, g.lc)]
       /\ pc' = [pc EXCEPT ![t] = p]
  /\ UNCHANGED mutex
  /\ SeqUnchanged

\* collect() lines 100-131
Copy(t) ==
  /\ pc[t] = "copy"
  /\ SetBlobs(copy(Blobs, DATA[t], loc[t]))
  /\ pc' = [pc EXCEPT ![t] = Leave("exit")]
  /\ loc' = [loc EXCEPT ![t] = Locals(Leave("exit"), loc[t])]
  /\ UNCHANGED mutex
  /\ SeqUnchanged

\* variant of Return: the mutex is unlocked by hand after collect() has
\* returned, and stays locked when collect() throws
ReturnHoldsOnThrow(t) ==
  /\ pc[t] \in {"exit", "unwind"}
  /\ pc' = [pc EXCEPT ![t] = IF pc[t] = "exit" THEN "done" ELSE "failed"]
  /\ loc' = [loc EXCEPT ![t] = NoLocals]
  /\ mutex' = IF pc[t] = "exit" THEN 0 ELSE mutex
  /\ UNCHANGED <<LAST_N, NEXT, NUM_VISITED>>
  /\ SeqUnchanged

\* lines 24-25: collect() has returned or thrown under the guard; the guard
\* is destroyed and the mutex released
Return(t) ==
  /\ pc[t] \in {"exit", "unwind"}
  /\ pc' = [pc EXCEPT ![t] = IF pc[t] = "exit" THEN "done" ELSE "failed"]
  /\ loc' = [loc EXCEPT ![t] = NoLocals]
  /\ mutex' = 0
  /\ UNCHANGED <<LAST_N, NEXT, NUM_VISITED>>
  /\ SeqUnchanged

NextConc ==
  \E t \in Threads :
    \/ Acquire(t)
    \/ Enter(t)
    \/ Grow(t)
    \/ Copy(t)
    \/ Return(t)

SpecConc == InitConc /\ [][NextConc]_vars

\* the concurrent callers, all given the MUTEX input, under a fair scheduler:
\* a caller that can take a step (one that is running, or one blocked in
\* lock() on a mutex that stays free) eventually takes it
InitMutex == InitConc /\ useMutex

SpecConcFair ==
  /\ InitMutex
  /\ [][NextConc]_vars
  /\ \A t \in Threads :
       WF_vars(Acquire(t) \/ Enter(t) \/ Grow(t) \/ Copy(t) \/ Return(t))

\* ---- properties -----------------------------------------------------------
Count(seq, v) == Cardinality({i \in 1..Len(seq) : seq[i] = v})
SameMultiset(s1, s2) == \A v \in RecVals : Count(s1, v) = Count(s2, v)

\* C1: after any sequence of collect calls on a fresh collector the records
\* in the window are, as a multiset, the last num_to_collect records offered
\* (all of them when fewer were offered)
C1_WindowIsLastN ==
  SameMultiset(LAST_N.data, recent)

\* C2: after each call on a fresh collector the window length is at most
\* num_to_collect and equals min(num_to_collect, records offered so far)
C2_LengthIsMin ==
  /\ Len(LAST_N.data) <= numToCollect
  /\ Len(LAST_N.data) = Min(numToCollect, total)

\* C3: whenever the window of a collector that started fresh is full, the
\* cursor equals (records offered so far) mod num_to_collect
C3_CursorIsTotalMod ==
  Len(LAST_N.data) = numToCollect => NEXT.val = total % numToCollect

\* C4: with NUM_VISITED supplied, after any sequence of successful calls on a
\* fresh collector VisitedCount is the total number of records passed to
\* collect
C4_VisitedIsTotal ==
  hasVisited => NUM_VISITED.val = total

\* C5: a collect call with a zero-length batch of matching shape leaves the
\* window's records and length, the cursor and VisitedCount unchanged
C5_EmptyBatchIsNoOp ==
  [][(/\ Len(lastDims') >= 1
      /\ lastDims'[1] = 0
      /\ (size(LAST_N) > 0 => SameRecordShape(LAST_N, [dims |-> lastDims'])))
     => (/\ result' = "none"
         /\ LAST_N'.data = LAST_N.data
         /\ NEXT' = NEXT
         /\ NUM_VISITED' = NUM_VISITED)]_vars

\* C3 (as amended): whenever the window is full, the cursor equals
\* (records stored since the window last started afresh) mod num_to_collect:
\* a batch of more than num_to_collect records sets the cursor to 0 whatever
\* the total, and a call that finds the window uninitialized starts the
\* count at its own batch
C3_CursorIsSinceRestartMod ==
  Len(LAST_N.data) = numToCollect => NEXT.val = sinceRestart % numToCollect

\* a full window whose cursor was advanced after an oversized batch set it to
\* 0, and no longer equals (records offered) mod num_to_collect
C3_Witness ==
  /\ Len(LAST_N.data) = numToCollect
  /\ result = "none"
  /\ sinceRestart > 0
  /\ total > numToCollect + sinceRestart
  /\ NEXT.val # total % numToCollect

\* ---- properties of concurrent callers -------------------------------------
InCollect == {"enter", "grow", "copy", "exit", "unwind"}
AllReturned == \A t \in Threads : pc[t] \in {"done", "failed"}
OneRecordEach == \A t \in Threads : ndim(DATA[t]) = 1 /\ dim0(DATA[t]) = 1

\* C6: when every caller supplies the mutex, at most one caller is between
\* the acquisition of the lock and the return of collect
C6_MutualExclusion ==
  useMutex => Cardinality({t \in Threads : pc[t] \in InCollect}) <= 1

\* one caller is copying under the lock while another waits for it
C6_Witness ==
  /\ useMutex
  /\ \E t, u \in Threads : pc[t] = "copy" /\ mutex = t /\ pc[u] = "start"

\* C7: K callers with one record each under the same mutex leave
\* VisitedCount = K and min(K, num_to_collect) records in the window, and
\* whenever the mutex is free every window row is a record some caller offered
C7_NoLostUpdate ==
  (useMutex /\ OneRecordEach) =>
    /\ (AllReturned /\ hasVisited) => NUM_VISITED.val = NumThreads
    /\ AllReturned => Len(LAST_N.data) = Min(NumThreads, numToCollect)
    /\ mutex = 0 =>
         \A i \in 1..Len(LAST_N.data) :
           \E t \in Threads : LAST_N.data[i] = DATA[t].data[1]

\* the outcomes of running the callers' collect calls one after the other on
\* the fresh collector, in every order
FreshBlobs ==
  [last_n |-> EmptyTensor,
   next |-> [ndim |-> 0, val |-> 0],
   num_visited |-> [size |-> 1, val |-> 0]]
Orders == {p \in [Threads -> Threads] : \A t, u \in Threads : t # u => p[t] # p[u]}
RECURSIVE RunInOrder(_, _, _)
RunInOrder(B, p, i) ==
  IF i > NumThreads THEN B
  ELSE RunInOrder(
         UNION {{collect(b, DATA[p[i]], oi).b :
                   oi \in output_initialized(b.last_n)} : b \in B},
         p, i + 1)
Serial == UNION {RunInOrder({FreshBlobs}, p, 1) : p \in Orders}

\* C8: without a mutex two concurrent collect calls can interleave so that
\* the blobs they leave differ from the result of every sequential execution
\* of the calls (the witness); such a result arises only when no mutex is
\* supplied: with the mutex the calls always leave a sequential result
C8_RaceOnlyWithoutMutex ==
  (useMutex /\ AllReturned) => Blobs \in Serial

\* all callers returned true, each offered the one record 1, and an update of
\* VisitedCount was lost
C8_Witness ==
  /\ ~useMutex
  /\ hasVisited
  /\ \A t \in Threads : pc[t] = "done" /\ DATA[t] = Batch(<< >>, <<1>>)
  /\ NUM_VISITED.val < NumThreads
  /\ Blobs \notin Serial

\* ---- failed calls ------------------------------------------------------------
\* C9: on a window that holds records, a call with a batch of rank 0 or of
\* another rank or per-record shape fails, and leaves the window, the cursor
\* and VisitedCount as they were
C9_ShapeMismatchFailsUnchanged ==
  [][(/\ size(LAST_N) > 0
      /\ (Len(lastDims') < 1 \/ ~SameRecordShape(LAST_N, [dims |-> lastDims'])))
     => (/\ result' \in {"input_rank", "shape"}
         /\ LAST_N' = LAST_N
         /\ NEXT' = NEXT
         /\ NUM_VISITED' = NUM_VISITED)]_vars

CursorFailure == {"next_slot", "next_range"}

C11_ShapeFixedByFirstBatch ==
  [][(/\ firstShape.known
      /\ Len(lastDims') >= 1
      /\ Tail(lastDims') # firstShape.rs)
     => (result' = "shape" /\ LAST_N' = LAST_N)]_vars

\* ---- the scenarios --------------------------------------------------------------
\* the single call collect([1,2,3,4]) has been made on the fresh collector of
\* num_to_collect = 6
Scenario1Done ==
  /\ numToCollect = 6
  /\ calls = 1
  /\ result = "none"
  /\ recent = <<1, 2, 3, 4>>

\* C12 (as stated): after the single call collect([1,2,3,4]) on a fresh
\* collector of capacity 6 the window is [1,2,3,4] and the cursor is 0
C12_Scenario1CursorZero ==
  Scenario1Done => (LAST_N.data = <<1, 2, 3, 4>> /\ NEXT.val = 0)

\* C12 (as amended): after the single call collect([1,2,3,4]) on a fresh
\* collector of capacity 6 the window is [1,2,3,4] and the cursor is 4, the
\* next free slot
C12_Scenario1CursorFour ==
  Scenario1Done => (LAST_N = Batch(<< >>, <<1, 2, 3, 4>>) /\ NEXT.val = 4)

\* the call of scenario 1 has been made and has stored four rows
C12_Witness ==
  Scenario1Done /\ Len(LAST_N.data) = 4 /\ NEXT.val # 0

\* ---- oversized batches -------------------------------------------------------
\* what the call about to be made needs to go through, the cursor excepted
SlotsWellFormed ==
  /\ NEXT.ndim = 0
  /\ hasVisited => (NUM_VISITED.size = 1 /\ NUM_VISITED.val >= 0)

\* C13: on any window (empty, partly filled or full) and any cursor below
\* num_to_collect, a call with a batch of more than num_to_collect records of
\* the window's shape returns true, and every such call that returns true
\* leaves the window with num_to_collect rows, the last num_to_collect
\* records of the batch in order from slot 0, and the cursor at 0
C13_OversizedBatch ==
  [][(Len(lastDims') >= 1 /\ lastDims'[1] > numToCollect)
     => /\ (/\ SlotsWellFormed
            /\ NEXT.val < numToCollect
            /\ (size(LAST_N) > 0
                  => SameRecordShape(LAST_N, [dims |-> lastDims'])))
            => result' = "none"
        /\ result' = "none"
            => /\ LAST_N'.dims = <<numToCollect>> \o Tail(lastDims')
               /\ Len(recent') = numToCollect
               /\ LAST_N'.data = recent'
               /\ NEXT'.val = 0]_vars

\* an oversized batch has replaced a full window
C13_Witness ==
  /\ result = "none"
  /\ lastDims[1] > numToCollect
  /\ total = numToCollect + lastDims[1]
  /\ Len(LAST_N.data) = numToCollect
  /\ LAST_N.data = recent
  /\ NEXT.val = 0

\* ---- the circular insertion ----------------------------------------------------
\* C14: a call that collects a batch of k records, 1 <= k <= num_to_collect,
\* entered with the cursor at start, writes record i of the batch to slot
\* (start + i) mod num_to_collect, leaves the cursor at
\* (start + k) mod num_to_collect, and leaves every other slot the window
\* had as it was
C14_CircularInsertion ==
  [][(/\ result' = "none"
      /\ Len(lastDims') >= 1
      /\ lastDims'[1] >= 1
      /\ lastDims'[1] <= numToCollect)
     => LET k == lastDims'[1]
            start == NEXT.val
            batch == SubRecs(recent', Len(recent') - k, k)
            row(i) == ((start + i) % numToCollect) + 1
        IN /\ \A i \in 0..(k - 1) :
                /\ row(i) <= Len(LAST_N'.data)
                /\ LAST_N'.data[row(i)] = batch[i + 1]
           /\ NEXT'.val = (start + k) % numToCollect
           /\ \A j \in 1..Len(LAST_N.data) :
                (\A i \in 0..(k - 1) : row(i) # j)
                  => (/\ j <= Len(LAST_N'.data)
                      /\ LAST_N'.data[j] = LAST_N.data[j])]_vars

\* C15: the window length never decreases from one call to the next, and a
\* window of num_to_collect rows keeps num_to_collect rows
C15_LengthNeverDecreases ==
  [][/\ Len(LAST_N'.data) >= Len(LAST_N.data)
     /\ (Len(LAST_N.data) = numToCollect
           => Len(LAST_N'.data) = numToCollect)]_vars

\* C16: in every state reached from a fresh collector, the cursor equals the
\* window length while the window has fewer than num_to_collect rows, and
\* lies in 0..num_to_collect-1 once it has num_to_collect rows
C16_CursorTracksLength ==
  /\ (Len(LAST_N.data) < numToCollect => NEXT.val = Len(LAST_N.data))
  /\ (Len(LAST_N.data) = numToCollect
        => (0 <= NEXT.val /\ NEXT.val < numToCollect))

\* ---- the uninitialized window ---------------------------------------------------
\* C17: a call with a batch of n >= 1 records on a window of zero elements,
\* whatever the values the caller left in the cursor and in VisitedCount,
\* returns true, leaves VisitedCount = n, the cursor at n mod num_to_collect
\* (at 0 when n > num_to_collect) and the window holding the last
\* min(n, num_to_collect) records of the batch from slot 0
C17_UninitializedIgnoresSlots ==
  [][(/\ size(LAST_N) = 0
      /\ Len(lastDims') >= 1
      /\ lastDims'[1] >= 1
      /\ NEXT.ndim = 0
      /\ (hasVisited => NUM_VISITED.size = 1))
     => LET n == lastDims'[1]
            kept == Min(n, numToCollect)
        IN /\ result' = "none"
           /\ (hasVisited => NUM_VISITED'.val = n)
           /\ NEXT'.val = (IF n <= numToCollect THEN n % numToCollect ELSE 0)
           /\ LAST_N' = [dims |-> <<kept>> \o Tail(lastDims'),
                         data |-> LastRecs(recent', kept)]]_vars

\* the one call was made on a zero-row window the caller supplied and has
\* left VisitedCount at its batch's record count
C17_Witness ==
  /\ result = "none"
  /\ hasVisited
  /\ lastDims[1] >= 1
  /\ total = lastDims[1]
  /\ calls = MaxCalls
  /\ NUM_VISITED.val = lastDims[1]
  /\ NEXT.val = lastDims[1] % numToCollect

\* ---- the layout of the window --------------------------------------------------
\* C18: in every state reached from a fresh collector, a window of
\* num_to_collect rows holds in slot (Cursor + i) mod num_to_collect the
\* (i+1)-th oldest of the last num_to_collect records offered, and a shorter
\* window holds in slot i the (i+1)-th record ever offered
C18_ChronologicalRing ==
  /\ Len(LAST_N.data) = numToCollect
       => /\ Len(recent) = numToCollect
          /\ \A i \in 0..(numToCollect - 1) :
               LAST_N.data[((NEXT.val + i) % numToCollect) + 1] = recent[i + 1]
  /\ Len(LAST_N.data) < numToCollect
       => (total = Len(recent) /\ LAST_N.data = recent)

\* C19: from a fresh collector no call fails the cursor validation
\* (Cursor < Window.length after growth) or the VisitedCount >= 0 check
C19_NoInvariantViolation ==
  result \notin {"next_range", "visited_negative"}

\* a call has stored its batch in a partly filled window, which it entered
\* with the cursor equal to the window length
C19_Witness ==
  /\ result = "none"
  /\ hasVisited
  /\ lastDims[1] >= 1
  /\ sinceRestart > lastDims[1]
  /\ sinceRestart <= numToCollect
  /\ Len(LAST_N.data) = sinceRestart

\* ---- progress under the mutex ----------------------------------------------------
Ended(t) == pc[t] \in {"done", "failed"}

\* C20: with the mutex and a fair scheduler, a caller goes on from the lock
\* only by acquiring the mutex and holds it while it is in collect; a caller
\* whose call has ended, by return or by a failed check, does not hold it;
\* and eventually every caller's call has ended and the mutex is free
C20_EveryCallCompletes ==
  /\ [][\A t \in Threads :
          (pc[t] = "start" /\ pc'[t] # "start") => mutex' = t]_vars
  /\ [](\A t \in Threads :
          /\ (pc[t] \in InCollect => mutex = t)
          /\ (Ended(t) => mutex # t))
  /\ <>[](AllReturned /\ mutex = 0)

\* under the mutex one caller's call has failed a check, another's has
\* returned, and the mutex is free
C20_Witness ==
  /\ useMutex
  /\ AllReturned
  /\ mutex = 0
  /\ \E t, u \in Threads : pc[t] = "failed" /\ pc[u] = "done"

====
